---- MODULE Spec2Model ----
(***************************************************************************)
(* Form/host synchronisation of the Action App: the useActionContext hook  *)
(* (src/unnamed/part_003), the SDK handle it drives (src/unnamed/part_002) *)
(* and the page events that call it (src/unnamed/part_001).                *)
(*                                                                         *)
(* React state is modelled twice: the hook's state cells hold the latest   *)
(* value every setter has produced, and `view` holds what the last render  *)
(* exposed to the page (the values closed over by the callbacks of that    *)
(* render).  A render may happen after any setter of the host callback     *)
(* (a root that renders synchronously outside React event handlers) or     *)
(* only later (a root that batches); a page event ends with a render.      *)
(*                                                                         *)
(* Optional values (a field of the envelope that may be missing, a         *)
(* nullable state) are sets: {} is undefined/null, {v} is the value v.     *)
(* A form snapshot is a function on Keys; a key that is not present reads  *)
(* as Undefined, as formData.key does in the source.                       *)
(*                                                                         *)
(* The SDK file's state is the sdkInitialized flag, the secret of the      *)
(* current client and the number of clients constructed so far.  The       *)
(* numeric field (NumberControl of src/src/lib/uipath.ts) is a separate    *)
(* specification: a text is the sequence of its characters, and parseInt   *)
(* and parseFloat are computed on that sequence.                           *)
(*                                                                         *)
(* The decision tab of the page (src/unnamed/part_001) restricts the user  *)
(* to what the rendered page offers, and the entities hook                 *)
(* (src/src/hooks/useUiPathEntities.ts) is a specification of its own, in  *)
(* which fetches start and settle in any order.                            *)
(***************************************************************************)
EXTENDS Integers, Sequences, FiniteSets, TLC

\* ------------------------------------------------------------- value sets

Undefined == "undefined"

None == {}

Some(v) == {v}

Get(opt) == CHOOSE v \in opt : TRUE

\* a ?? b
Coalesce(a, b) == IF a # None THEN a ELSE b

Keys == {"patientName", "reviewerComments"}

Values == {"", "ok"}

Snapshots == [Keys -> Values \cup {Undefined}]

\* INITIAL_DATA of the page: patientName is set, reviewerComments is not.
InitialData == [k \in Keys |-> IF k = "patientName" THEN "ok" ELSE Undefined]

Outcomes == {"Correct", "Incorrect"}

EnvelopeFields ==
    {"data", "isReadOnly", "theme", "newTheme", "language", "newLanguage",
     "baseUrl", "orgName", "tenantName", "token", "newToken"}

\* An envelope with every field missing.
EmptyEnvelope == [f \in EnvelopeFields |-> None]

\* A snapshot a host sends: both fields present, the comments still blank.
HostSample == [k \in Keys |-> ""]

\* Envelopes of the presentation concerns: theme, language and token refresh,
\* each present or missing, with or without data.
HostEnvelopes ==
    { [EmptyEnvelope EXCEPT !.data = d, !.theme = t, !.newTheme = nt,
                            !.language = l, !.newLanguage = nl, !.newToken = tok] :
        d \in {None, Some(HostSample)},
        t \in {None, Some("dark")}, nt \in {None, Some("light")},
        l \in {None, Some("fr")}, nl \in {None, Some("de")},
        tok \in {None, Some("t2")} }

CredentialFields == {"baseUrl", "orgName", "tenantName", "token"}

\* Envelopes of the connection concern: each credential present or missing,
\* with or without a refreshed token.
SdkEnvelopes ==
    { [EmptyEnvelope EXCEPT !.baseUrl = b, !.orgName = o, !.tenantName = t,
                            !.token = k, !.newToken = n] :
        b \in {None, Some("url")}, o \in {None, Some("org")},
        t \in {None, Some("tenant")}, k \in {None, Some("t1")},
        n \in {None, Some("t2")} }

\* Envelopes of the form concern: any data (or none), any isReadOnly (or none).
FormEnvelopes ==
    { [EmptyEnvelope EXCEPT !.data = d, !.isReadOnly = r] :
        d \in {None} \cup {Some(s) : s \in Snapshots},
        r \in {None, Some(TRUE), Some(FALSE)} }

\* ------------------------------------------------------------------ state

VARIABLES
    taskData,             \* useState: None or Some(envelope)
    formData,             \* useState: the form snapshot
    theme,                \* useState
    language,             \* useState
    hasActionCenterData,  \* useState
    initialDataRef,       \* useRef: the reset baseline
    isInitializedRef,     \* useRef: the mount guard
    sdkInitialized,       \* module variable of the SDK file
    sdkSecret,            \* secret of the current SDK client
    sdkClients,           \* SDK clients constructed so far (new UiPath)
    pc,                   \* position inside the host callback, or "idle"
    env,                  \* the envelope the host callback is handling
    view,                 \* what the last render exposed
    subscribed,           \* a host callback is registered
    readySignalled,       \* the host got the ready signal
    subscribeCalls,       \* calls of getTaskDetailsFromActionCenter
    readyCalls,           \* calls of initializeInActionCenter
    last,                 \* the most recent handler: its arguments and host calls
    lastHostData,         \* data of the most recent envelope that carried data
    base,                 \* snapshot at the last wholesale assignment
    writes,               \* key -> last value written since `base`
    control,              \* a numeric field: its last change event and value
    fetch                 \* useUiPathEntities: its state and its fetches

vars ==
    <<taskData, formData, theme, language, hasActionCenterData, initialDataRef,
      isInitializedRef, sdkInitialized, sdkSecret, sdkClients, pc, env, view,
      subscribed, readySignalled, subscribeCalls, readyCalls, last,
      lastHostData, base, writes, control, fetch>>

hookState ==
    <<taskData, formData, theme, language, hasActionCenterData, initialDataRef>>

sdkState == <<sdkInitialized, sdkSecret, sdkClients>>

mountState ==
    <<isInitializedRef, subscribed, readySignalled, subscribeCalls, readyCalls>>

ghostState == <<lastHostData, base, writes>>

\* ------------------------------------------------------------- the render

\* isReadOnly: taskData?.isReadOnly ?? false
IsReadOnly(td) ==
    IF td # None /\ Get(td).isReadOnly # None THEN Get(Get(td).isReadOnly) ELSE FALSE

\* The values the hook returns from a render of the given state.
Rendered(td, fd, has) ==
    [formData |-> fd, isReadOnly |-> IsReadOnly(td), hasActionCenterData |-> has]

\* A scheduled render commits: the page sees the latest state.
Render ==
    /\ UNCHANGED <<control, fetch>>
    /\ view # Rendered(taskData, formData, hasActionCenterData)
    /\ view' = Rendered(taskData, formData, hasActionCenterData)
    /\ UNCHANGED <<hookState, sdkState, mountState, ghostState, pc, env, last>>

\* --------------------------------------------------------- handler records

NoWrites == [k \in Keys |-> None]

\* What a handler did: its name and arguments, the dataChanged call it made
\* (notified: the payload; notifyThrew: the call threw), the completeTask call
\* it made, the local fallbacks it ran and whether an exception left it; for
\* a host callback, whether it is the first one of the session.
NoHandler ==
    [op |-> "none", first |-> FALSE, name |-> Undefined, value |-> Undefined,
     partial |-> NoWrites, outcome |-> Undefined,
     notified |-> None, notifyThrew |-> FALSE,
     completed |-> None, completeThrew |-> FALSE,
     fallbacks |-> <<>>, escaped |-> FALSE]

\* Mutant: the try/catch around the dataChanged call is missing.
NotifyUncaught == FALSE

\* Lines 118-122: the dataChanged call sits in a try block with an empty catch.
NotifyCatches == TRUE

\* An exception leaves notifyDataChanged: the call threw and nothing caught it.
Thrown(ok) == ~ok /\ ~NotifyCatches

\* Mutant: dataChanged is sent only the keys the call wrote.
NotifyChangedKeysOnly(rec, data, ok) ==
    [rec EXCEPT
       !.notified =
           Some([k \in Keys |->
                   IF rec.op = "updateField"
                   THEN (IF k = rec.name THEN rec.value ELSE Undefined)
                   ELSE IF rec.partial[k] # None THEN Get(rec.partial[k])
                   ELSE Undefined]),
       !.notifyThrew = ~ok, !.escaped = Thrown(ok)]

\* notifyDataChanged(data), lines 117-123: the call is made with `data`; ok says
\* whether it returns (TRUE) or throws (FALSE).
NotifyDataChanged(rec, data, ok) ==
    [rec EXCEPT !.notified = Some(data), !.notifyThrew = ~ok, !.escaped = Thrown(ok)]


\* ------------------------------------------------------------ mount effect

\* Mutant: the guard ref is never consulted.
NeverInitialized == FALSE

\* Line 127: the effect returns at once when the guard ref is set.
AlreadyInitialized == isInitializedRef

\* Mutant: the try/catch of the mount effect is missing.
MountUncaught == FALSE

\* Lines 129-177: both host calls sit in a try block whose catch only logs.
MountCatches == TRUE

\* An exception leaves the mount effect: a host call threw and nothing caught it.
MountThrown(subOk, readyOk) == ~(subOk /\ readyOk) /\ ~MountCatches

\* Mutant: the ready signal is sent whether or not the subscription call returned.
ReadyAttemptedAlways(subOk) == TRUE

\* Line 172 follows line 131 in the same try block: the ready call is made
\* only when the subscription call returned.
ReadyAttempted(subOk) == subOk

\* useEffect(..., []), lines 126-178: subscribe to the host, then signal ready;
\* subOk and readyOk say whether the two host calls return (TRUE) or throw
\* (FALSE).  The effect may run again at any time; a run that returns at the
\* guard is recorded as "mountSkipped".
MountEffect(subOk, readyOk) ==
    /\ UNCHANGED <<control, fetch>>
    /\ pc = "idle"
    /\ IF AlreadyInitialized
       THEN /\ last' = [NoHandler EXCEPT !.op = "mountSkipped"]
            /\ UNCHANGED <<isInitializedRef, subscribed, readySignalled,
                           subscribeCalls, readyCalls>>
       ELSE /\ isInitializedRef' = TRUE
            /\ subscribeCalls' = subscribeCalls + 1
            /\ subscribed' = subOk
            /\ readyCalls' = IF ReadyAttempted(subOk) THEN readyCalls + 1 ELSE readyCalls
            /\ readySignalled' = (ReadyAttempted(subOk) /\ readyOk)
            /\ last' = [NoHandler EXCEPT !.op = "mount",
                                         !.escaped = MountThrown(subOk, readyOk)]
    /\ UNCHANGED <<hookState, sdkState, ghostState, pc, env, view>>

\* ------------------------------------------------------- the host callback

\* Mutant: the callback never sets the flag.
CallbackStepsNoFlag == <<"formData">>

\* Mutant: the flag is set before the form data.
CallbackStepsFlagFirst == <<"hasData", "formData">>

\* The order of the callback's last setters (lines 159-167), which run after
\* the context (task data, SDK, theme, language) is set: the form data, then
\* the flag.
CallbackSteps == <<"formData", "hasData">>

StepIndex(step) == CHOOSE i \in 1..Len(CallbackSteps) : CallbackSteps[i] = step

\* The position after `step`: the next setter, or "idle" when the callback returns.
After(step) ==
    IF StepIndex(step) < Len(CallbackSteps)
    THEN CallbackSteps[StepIndex(step) + 1]
    ELSE "idle"

\* The envelope in hand while the callback runs, none once it has returned.
EnvAfter(step) == IF After(step) = "idle" THEN EmptyEnvelope ELSE env

\* A JavaScript truthiness test of an optional string.
Truthy(opt) == opt # None /\ Get(opt) # ""

\* Mutant: the token alone counts as credentials.
HasCredentialsTokenOnly(e) == Truthy(e.token)

\* Line 139: all four credentials are present.
HasCredentials(e) ==
    Truthy(e.baseUrl) /\ Truthy(e.orgName) /\ Truthy(e.tenantName) /\ Truthy(e.token)

\* The clients a session may construct (the module's default one included).
MaxClients == 3

\* The SDK file's state as one value: the sdkInitialized flag, the secret of
\* the current client and the number of clients constructed.
SdkNow == [initialized |-> sdkInitialized, secret |-> sdkSecret, clients |-> sdkClients]

\* initializeSdk(config): a new client with the envelope's credentials replaces
\* the current one and the flag is set.
InitializeSdk(sdk, e) ==
    [initialized |-> TRUE, secret |-> Get(e.token), clients |-> sdk.clients + 1]

\* Mutant: updateToken replaces the client and marks the SDK initialized.
UpdateTokenRebuilding(sdk, newToken) ==
    [initialized |-> TRUE, secret |-> newToken, clients |-> sdk.clients + 1]

\* updateToken(newToken): sdk.updateToken on the current client.
UpdateToken(sdk, newToken) == [sdk EXCEPT !.secret = newToken]

\* Lines 139-151: initializeSdk under the credentials test, then updateToken
\* under the newToken test.
SdkAfter(sdk, e) ==
    LET s1 == IF HasCredentials(e) THEN InitializeSdk(sdk, e) ELSE sdk
    IN  IF Truthy(e.newToken) THEN UpdateToken(s1, Get(e.newToken)) ELSE s1

\* Line 154: (data.newTheme ?? data.theme) as Theme.
ThemeOf(e) ==
    IF Coalesce(e.newTheme, e.theme) # None
    THEN Get(Coalesce(e.newTheme, e.theme))
    ELSE Undefined

\* Line 157: data.newLanguage ?? data.language ?? 'en'.
LanguageOf(e) == Get(Coalesce(Coalesce(e.newLanguage, e.language), Some("en")))

\* The host invokes the registered callback with an envelope of E; lines 133-157:
\* setTaskData, initializeSdk, updateToken, setTheme, setLanguage.
HostPush(E) ==
    /\ UNCHANGED <<control, fetch>>
    /\ pc = "idle"
    /\ subscribed /\ readySignalled
    /\ \E e \in E :
        /\ env' = e
        /\ taskData' = Some(e)
        /\ SdkAfter(SdkNow, e).clients <= MaxClients
        /\ sdkInitialized' = SdkAfter(SdkNow, e).initialized
        /\ sdkSecret' = SdkAfter(SdkNow, e).secret
        /\ sdkClients' = SdkAfter(SdkNow, e).clients
        /\ theme' = ThemeOf(e)
        /\ language' = LanguageOf(e)
        /\ lastHostData' = IF e.data # None THEN e.data ELSE lastHostData
    /\ pc' = CallbackSteps[1]
    /\ last' = [NoHandler EXCEPT !.op = "envelope", !.first = (taskData = None)]
    /\ UNCHANGED <<formData, hasActionCenterData, initialDataRef, mountState,
                   base, writes, view>>

\* Mutant: the envelope's data is merged over the old snapshot.
DataAfterMerged(e, prev) ==
    IF e.data # None
    THEN [k \in Keys |-> IF Get(e.data)[k] # Undefined THEN Get(e.data)[k] ELSE prev[k]]
    ELSE prev

\* Mutant: an envelope without data clears the snapshot (data.data ?? {}).
DataAfterOrEmpty(e, prev) ==
    IF e.data # None THEN Get(e.data) ELSE [k \in Keys |-> Undefined]

\* The snapshot lines 160-163 leave in a cell that held `prev` (the form data,
\* the baseline ref): data.data when the envelope carries it, else `prev`.
DataAfter(e, prev) == IF e.data # None THEN Get(e.data) ELSE prev

\* Lines 160-163: if (data.data) { setFormData(data.data); initialDataRef.current = data.data }
ApplyFormData ==
    /\ UNCHANGED <<control, fetch>>
    /\ pc = "formData"
    /\ formData' = DataAfter(env, formData)
    /\ initialDataRef' = DataAfter(env, initialDataRef)
    /\ IF env.data # None
       THEN base' = Get(env.data) /\ writes' = NoWrites
       ELSE UNCHANGED <<base, writes>>
    /\ pc' = After("formData")
    /\ env' = EnvAfter("formData")
    /\ UNCHANGED <<taskData, theme, language, hasActionCenterData, sdkState,
                   mountState, lastHostData, view, last>>

\* Line 167: setHasActionCenterData(true).
SetHasData ==
    /\ UNCHANGED <<control, fetch>>
    /\ pc = "hasData"
    /\ hasActionCenterData' = TRUE
    /\ pc' = After("hasData")
    /\ env' = EnvAfter("hasData")
    /\ UNCHANGED <<taskData, formData, theme, language, initialDataRef, sdkState,
                   mountState, ghostState, view, last>>

\* -------------------------------------------------------- the page's calls

\* Mutant: the previous snapshot is not spread into the update.
MergeDroppingOthers(prev, fieldName, value) ==
    [k \in Keys |-> IF k = fieldName THEN value ELSE Undefined]

\* { ...prev, [fieldName]: value }
Merge(prev, fieldName, value) == [prev EXCEPT ![fieldName] = value]

\* { ...prev, ...data }: data gives Some(value) for the keys it holds.
MergeAll(prev, data) ==
    [k \in Keys |-> IF data[k] # None THEN Get(data[k]) ELSE prev[k]]

Partials == [Keys -> {None} \cup {Some(v) : v \in Values \cup {Undefined}}]

\* A page event runs once the mount effect has run, between host callbacks.
CanCall == pc = "idle" /\ isInitializedRef

\* Mutant: the updater's result is dropped.
UpdatedDiscarded(prev, updated, ok) == prev

\* The state a functional update leaves: the updater's result, or the old
\* state when an exception left the updater.
Updated(prev, updated, ok) == IF Thrown(ok) THEN prev ELSE updated

\* updateField(fieldName, value), lines 181-187; ok: dataChanged returns.
UpdateField(fieldName, value, ok) ==
    /\ UNCHANGED <<control, fetch>>
    /\ CanCall
    /\ formData' = Updated(formData, Merge(formData, fieldName, value), ok)
    /\ last' = NotifyDataChanged(
                 [NoHandler EXCEPT !.op = "updateField", !.name = fieldName,
                                   !.value = value],
                 Merge(formData, fieldName, value), ok)
    /\ writes' = [writes EXCEPT ![fieldName] = Some(value)]
    /\ view' = Rendered(taskData, formData', hasActionCenterData)
    /\ UNCHANGED <<taskData, theme, language, hasActionCenterData, initialDataRef,
                   sdkState, mountState, lastHostData, base, pc, env>>

\* updateFormData(data), lines 190-196.
UpdateFormData(data, ok) ==
    /\ UNCHANGED <<control, fetch>>
    /\ CanCall
    /\ formData' = Updated(formData, MergeAll(formData, data), ok)
    /\ last' = NotifyDataChanged(
                 [NoHandler EXCEPT !.op = "updateFormData", !.partial = data],
                 MergeAll(formData, data), ok)
    /\ writes' = [k \in Keys |-> IF data[k] # None THEN data[k] ELSE writes[k]]
    /\ view' = Rendered(taskData, formData', hasActionCenterData)
    /\ UNCHANGED <<taskData, theme, language, hasActionCenterData, initialDataRef,
                   sdkState, mountState, lastHostData, base, pc, env>>

\* Mutant: resetForm keeps the current snapshot.
ResetTargetCurrent == formData

\* Mutant: resetForm restores the data passed at mount.
ResetTargetMountDefault == InitialData

\* The snapshot resetForm restores (lines 213-214).
ResetTarget == initialDataRef

\* resetForm(), lines 212-215.
ResetForm(ok) ==
    /\ UNCHANGED <<control, fetch>>
    /\ CanCall
    /\ formData' = ResetTarget
    /\ last' = NotifyDataChanged([NoHandler EXCEPT !.op = "resetForm"],
                                 ResetTarget, ok)
    /\ base' = ResetTarget
    /\ writes' = NoWrites
    /\ view' = Rendered(taskData, formData', hasActionCenterData)
    /\ UNCHANGED <<taskData, theme, language, hasActionCenterData, initialDataRef,
                   sdkState, mountState, lastHostData, pc, env>>

\* The formData completeTask closes over: the one of the last render
\* (useCallback(..., [formData]), line 209).
CompletePayload == view.formData

\* Mutant: the catch block of completeTask is empty.
FallbacksNone(outcome, data, ok) == <<>>

\* The local fallback of completeTask (lines 205-207), run when the host call threw.
Fallbacks(outcome, data, ok) ==
    IF ok THEN <<>> ELSE <<[outcome |-> outcome, formData |-> data]>>

\* completeTask(outcome), lines 199-209; ok: the host call returns.
CompleteTask(outcome, ok) ==
    /\ UNCHANGED <<control, fetch>>
    /\ CanCall
    /\ last' = [NoHandler EXCEPT
                  !.op = "completeTask", !.outcome = outcome,
                  !.completed = Some([outcome |-> outcome, formData |-> CompletePayload]),
                  !.completeThrew = ~ok,
                  !.fallbacks = Fallbacks(outcome, CompletePayload, ok)]
    /\ UNCHANGED <<hookState, sdkState, mountState, ghostState, pc, env, view>>

\* ------------------------------------------------------ the decision tab

\* The texts typed into the comments box: empty, blank, a comment, a comment
\* with blanks around it.
CommentTexts == {"", " ", "ok", " ok "}

\* String.prototype.trim on the texts of the model.
Trim(text) ==
    CASE text = " " -> ""
      [] text = " ok " -> "ok"
      [] OTHER -> text

\* Mutant: the comments are not trimmed.
IsFormValidUntrimmed(fd) ==
    fd["reviewerComments"] \notin {Undefined, ""}

\* isFormValid: formData.reviewerComments && formData.reviewerComments.trim().length > 0
IsFormValid(fd) ==
    /\ fd["reviewerComments"] \notin {Undefined, ""}
    /\ Trim(fd["reviewerComments"]) # ""

\* Mutant: the controls ignore isReadOnly.
ControlsEnabledAlways(page) == TRUE

\* readOnly={isReadOnly} on the comments field (disabled={readOnly} on its
\* control) and {!isReadOnly && ...} around the outcome buttons.
ControlsEnabled(page) == ~page.isReadOnly

\* The user types into the comments box of the rendered page:
\* onChange={(value) => updateField('reviewerComments', value)}.
TypeComments(text, ok) ==
    /\ ControlsEnabled(view)
    /\ UpdateField("reviewerComments", text, ok)

\* The user clicks an outcome button of the rendered page:
\* onOutcome={completeTask}, disabled={!isFormValid}.
ClickOutcome(outcome, ok) ==
    /\ ControlsEnabled(view)
    /\ IsFormValid(view.formData)
    /\ CompleteTask(outcome, ok)

\* Host data for the page: the comments empty, blank or filled.
PageEnvelopes ==
    { [EmptyEnvelope EXCEPT !.data = d, !.isReadOnly = r] :
        d \in {None} \cup {Some([HostSample EXCEPT !["reviewerComments"] = c]) :
                              c \in {"", " ", "ok"}},
        r \in {None, Some(TRUE), Some(FALSE)} }

\* ------------------------------------------------------ the numeric field

\* The characters typed into a numeric field: digits, the point, the sign
\* and a letter.
Chars == {"0", "3", "7", ".", "-", "x"}

Digits == {"0", "3", "7"}

\* The longest text typed; a text is the sequence of its characters.
MaxLen == 3

\* Numbers are held in units of 10^-MaxLen, so every fraction a text can
\* spell is exact.
Scale == 10 ^ MaxLen

UndefinedValue == [kind |-> "undefined", scaled |-> 0]

NaN == [kind |-> "NaN", scaled |-> 0]

Num(n) == [kind |-> "number", scaled |-> n]

DigitValue(c) == CASE c = "0" -> 0 [] c = "3" -> 3 [] c = "7" -> 7

RECURSIVE DigitPrefix(_)
\* The longest prefix of `text` made of digits.
DigitPrefix(text) ==
    IF text # <<>> /\ Head(text) \in Digits
    THEN <<Head(text)>> \o DigitPrefix(Tail(text))
    ELSE <<>>

RECURSIVE ToNat(_)
\* The number a sequence of digits spells.
ToNat(ds) ==
    IF ds = <<>> THEN 0
    ELSE 10 * ToNat(SubSeq(ds, 1, Len(ds) - 1)) + DigitValue(ds[Len(ds)])

Drop(text, n) == SubSeq(text, n + 1, Len(text))

Negative(text) == text # <<>> /\ Head(text) = "-"

Unsigned(text) == IF Negative(text) THEN Tail(text) ELSE text

Signed(text, n) == IF Negative(text) THEN 0 - n ELSE n

\* The digits after the point that follows the whole part, if there is one.
FractionOf(text) ==
    LET after == Drop(Unsigned(text), Len(DigitPrefix(Unsigned(text))))
    IN  IF after # <<>> /\ Head(after) = "." THEN DigitPrefix(Tail(after)) ELSE <<>>

\* parseFloat(val): the longest prefix that reads sign, digits, point, digits;
\* NaN when that prefix holds no digit.
ParseFloat(text) ==
    LET whole == DigitPrefix(Unsigned(text))
        frac  == FractionOf(text)
    IN  IF whole = <<>> /\ frac = <<>> THEN NaN
        ELSE Num(Signed(text, ToNat(whole) * Scale
                              + ToNat(frac) * 10 ^ (MaxLen - Len(frac))))

\* parseInt(val, 10): the longest prefix that reads sign, digits; NaN when it
\* holds no digit.
ParseInt(text) ==
    LET whole == DigitPrefix(Unsigned(text))
    IN  IF whole = <<>> THEN NaN ELSE Num(Signed(text, ToNat(whole) * Scale))

\* The texts an <input type="number"> accepts as a number: sign, digits and
\* optionally point and digits, or sign, point, digits.
ValidNumber(text) ==
    LET u     == Unsigned(text)
        whole == DigitPrefix(u)
        rest  == Drop(u, Len(whole))
    IN  \/ whole # <<>> /\ rest = <<>>
        \/ /\ rest # <<>> /\ Head(rest) = "."
           /\ Tail(rest) # <<>>
           /\ DigitPrefix(Tail(rest)) = Tail(rest)

\* e.target.value for the typed text: an input of type number that sanitizes
\* reports "" for a text that is not a number; one that does not reports the
\* text.
InputValue(text, sanitizes) ==
    IF sanitizes /\ ~ValidNumber(text) THEN <<>> ELSE text

\* The onChange calls NumberControl makes for a change event whose value is
\* `val` (lines 196-203).
NumberOnChange(isInteger, val) ==
    IF val = <<>> THEN <<UndefinedValue>>
    ELSE <<IF isInteger THEN ParseInt(val) ELSE ParseFloat(val)>>

IntegerTypes == {"Int16", "Int32", "Int64", "UInt16", "UInt32", "UInt64"}

\* The types of the fields shown with NumberControl: the integer ones and a
\* numeric one outside the list of lines 324-331.
NumberTypes == IntegerTypes \cup {"Double"}

\* Lines 324-331: isInteger.
IsIntegerType(type) == type \in IntegerTypes

\* The declared types of fields: boolean, text, the numeric ones, date-only
\* and a type none of the tests of ActionFormField names.
FieldTypes == {"Boolean", "String", "DateOnly", "Other"} \cup NumberTypes

\* getInputType(type): 'number' for every numeric type.
GetInputType(type) == IF type \in NumberTypes THEN "number" ELSE "text"

\* Mutant: the multiline test comes first and does not look at the type.
SelectControlMultilineFirst(type, multiline) ==
    IF multiline THEN "textarea"
    ELSE IF type = "Boolean" THEN "checkbox"
    ELSE IF GetInputType(type) = "number" THEN "number"
    ELSE IF type = "DateOnly" THEN "date"
    ELSE "text"

\* The control ActionFormField returns (lines 293-354): the tests in their
\* order, the first that holds decides.
SelectControl(type, multiline) ==
    IF type = "Boolean" THEN "checkbox"
    ELSE IF multiline /\ type = "String" THEN "textarea"
    ELSE IF GetInputType(type) = "number" THEN "number"
    ELSE IF type = "DateOnly" THEN "date"
    ELSE "text"

\* A numeric field nobody has typed into, its value not set.
NoControl ==
    [type |-> "Double", multiline |-> FALSE, kind |-> "number",
     text |-> <<>>, sanitizes |-> TRUE, changes |-> 0,
     emitted |-> <<>>, stored |-> UndefinedValue]

\* ActionFormField renders a field of `type` with the multiline hint.
ShowField(type, multiline) ==
    /\ pc = "idle"
    /\ control' = [NoControl EXCEPT !.type = type, !.multiline = multiline,
                                    !.kind = SelectControl(type, multiline)]
    /\ UNCHANGED <<hookState, sdkState, mountState, ghostState, pc, env, view, last,
                   fetch>>

\* The value a field holds after the onChange calls `calls`: the page's
\* onChange stores each value it is given.
StoredAfter(stored, calls) ==
    IF calls = <<>> THEN stored ELSE calls[Len(calls)]

\* A change event on a field of `type` that now holds `text`: the handler's
\* onChange calls and the value the field then holds.  `changes` tells a first
\* event (1) from none (0); the field shown is a numeric one of `type`, and
\* its input element stays the same from the first event on.
NumberChange(type, text, sanitizes) ==
    /\ pc = "idle"
    /\ Len(text) <= MaxLen
    /\ type = control.type /\ control.kind = "number"
    /\ control.changes > 0 => sanitizes = control.sanitizes
    /\ control' =
         [type |-> type, multiline |-> control.multiline, kind |-> control.kind,
          text |-> text, sanitizes |-> sanitizes, changes |-> 1,
          emitted |-> NumberOnChange(IsIntegerType(type), InputValue(text, sanitizes)),
          stored |-> StoredAfter(control.stored,
                       NumberOnChange(IsIntegerType(type), InputValue(text, sanitizes)))]
    /\ UNCHANGED <<hookState, sdkState, mountState, ghostState, pc, env, view, last,
                   fetch>>

\* ---------------------------------------------------- the entities hook

\* The fetchEntities calls of a session (the one of the mount effect and the
\* refetch calls).
MaxFetches == 4

FetchIds == 1..MaxFetches

\* useUiPathEntities after its first render: entities [], loading true, error
\* null, no fetchEntities call made.  `entities` names the call whose response
\* is held (0: the initial []); `calls` gives each call's state.
NoFetch ==
    [entities |-> 0, loading |-> TRUE, error |-> None,
     calls |-> [i \in FetchIds |-> "none"]]

Started(f) == {i \in FetchIds : f.calls[i] # "none"}

InFlight(f) == {i \in FetchIds : f.calls[i] = "pending"}

\* fetchEntities() up to its await (lines 21-24); the first call is the one of
\* the mount effect, the later ones are refetch calls.
FetchEntities ==
    /\ Cardinality(Started(fetch)) < MaxFetches
    /\ fetch' = [fetch EXCEPT
                   !.loading = TRUE, !.error = None,
                   !.calls[Cardinality(Started(fetch)) + 1] = "pending"]
    /\ UNCHANGED <<hookState, sdkState, mountState, ghostState, pc, env, view, last,
                   control>>

\* The await of call i returns (lines 25, 29): setEntities(response),
\* setLoading(false).
FetchResolved(i) ==
    /\ i \in InFlight(fetch)
    /\ fetch' = [fetch EXCEPT !.entities = i, !.loading = FALSE, !.calls[i] = "ok"]
    /\ UNCHANGED <<hookState, sdkState, mountState, ghostState, pc, env, view, last,
                   control>>

\* The await of call i throws (lines 27, 29): setError(message),
\* setLoading(false).
FetchRejected(i) ==
    /\ i \in InFlight(fetch)
    /\ fetch' = [fetch EXCEPT !.error = Some("Failed to fetch entities"),
                              !.loading = FALSE, !.calls[i] = "failed"]
    /\ UNCHANGED <<hookState, sdkState, mountState, ghostState, pc, env, view, last,
                   control>>

\* ----------------------------------------------------------- specification

Init ==
    /\ taskData = None
    /\ formData = InitialData
    /\ theme = "light"
    /\ language = "en"
    /\ hasActionCenterData = FALSE
    /\ initialDataRef = InitialData
    /\ isInitializedRef = FALSE
    /\ sdkInitialized = FALSE
    /\ sdkSecret = "placeholder"
    /\ sdkClients = 1
    /\ pc = "idle"
    /\ env = EmptyEnvelope
    /\ view = Rendered(None, InitialData, FALSE)
    /\ subscribed = FALSE
    /\ readySignalled = FALSE
    /\ subscribeCalls = 0
    /\ readyCalls = 0
    /\ last = NoHandler
    /\ lastHostData = None
    /\ base = InitialData
    /\ writes = NoWrites
    /\ control = NoControl
    /\ fetch = NoFetch

Mount == \E subOk, readyOk \in BOOLEAN : MountEffect(subOk, readyOk)

Edit ==
    \E ok \in BOOLEAN :
        \/ \E k \in Keys, v \in Values \cup {Undefined} : UpdateField(k, v, ok)
        \/ \E d \in Partials : UpdateFormData(d, ok)
        \/ ResetForm(ok)

Complete == \E o \in Outcomes, ok \in BOOLEAN : CompleteTask(o, ok)

Callback == ApplyFormData \/ SetHasData

Next ==
    \/ Mount
    \/ HostPush(FormEnvelopes)
    \/ Callback
    \/ Render
    \/ Edit
    \/ Complete

Spec == Init /\ [][Next]_vars

\* The same session with envelopes that carry theme, language and token.
HostNext ==
    \/ Mount
    \/ HostPush(HostEnvelopes)
    \/ Callback
    \/ Render
    \/ Edit
    \/ Complete

SpecHost == Init /\ [][HostNext]_vars

\* The session seen from the SDK file: envelopes that carry credentials and
\* token refreshes, and the page completing the task.
SdkNext ==
    \/ Mount
    \/ HostPush(SdkEnvelopes)
    \/ Callback
    \/ Render
    \/ Complete

SpecSdk == Init /\ [][SdkNext]_vars

\* The session driven through the page: the user can only do what the
\* rendered decision tab offers.
PageNext ==
    \/ Mount
    \/ HostPush(PageEnvelopes)
    \/ Callback
    \/ Render
    \/ \E text \in CommentTexts, ok \in BOOLEAN : TypeComments(text, ok)
    \/ \E o \in Outcomes, ok \in BOOLEAN : ClickOutcome(o, ok)

SpecPage == Init /\ [][PageNext]_vars

\* The fields ActionFormField shows, the numeric ones typed into.
\* Each keystroke is a change event: a character is added to the text, or
\* the text is cleared.
NumberNext ==
    \/ \E type \in FieldTypes, multiline \in BOOLEAN : ShowField(type, multiline)
    \/ \E type \in NumberTypes, sanitizes \in BOOLEAN :
        \/ \E c \in Chars : NumberChange(type, Append(control.text, c), sanitizes)
        \/ NumberChange(type, <<>>, sanitizes)

SpecNumber == Init /\ [][NumberNext]_vars

\* The entities hook: fetches start and settle in any order.
EntitiesNext ==
    \/ FetchEntities
    \/ \E i \in FetchIds : FetchResolved(i) \/ FetchRejected(i)

SpecEntities == Init /\ [][EntitiesNext]_vars

\* ------------------------------------------------------------------ claims

\* `b` overlaid with the writes `w` (key -> the last value written, if any).
Overlay(b, w) == [k \in Keys |-> IF w[k] # None THEN Get(w[k]) ELSE b[k]]

\* The last externally supplied baseline: the data of the most recent envelope
\* that carried data, else the data passed at mount.
Baseline == IF lastHostData # None THEN Get(lastHostData) ELSE InitialData

UpdateOps == {"updateField", "updateFormData"}

EditOps == UpdateOps \cup {"resetForm"}

\* This step is a call of one of the handlers in `ops`.
IsCall(ops) == last' # last /\ last'.op \in ops

\* C1: whenever isReadOnly is true, updateField and updateFormData are no-ops:
\* the form snapshot after the call equals the one before it and no dataChanged
\* notification is sent.
C1_ReadOnlyUpdatesAreNoOps ==
    [][(IsCall(UpdateOps) /\ view.isReadOnly /\ IsReadOnly(taskData))
         => (formData' = formData /\ last'.notified = None)]_vars

\* C2: while the first envelope of the session, which carries data, is the most
\* recent handler, no render exposes hasActionCenterData = true together with
\* form values other than that envelope's data.
C2_FlagNeverBeforeData ==
    (/\ last.op = "envelope" /\ last.first
     /\ Get(taskData).data # None
     /\ view.hasActionCenterData)
        => view.formData = Get(Get(taskData).data)

C2_Witness ==
    /\ last.op = "envelope" /\ last.first
    /\ Get(taskData).data # None
    /\ Get(Get(taskData).data) # InitialData
    /\ view.hasActionCenterData
    /\ view.formData = Get(Get(taskData).data)

\* C3: after resetForm the form snapshot is the last externally supplied
\* baseline (the most recent host data if any arrived, else the data passed at
\* mount), and the dataChanged call carried that baseline.
C3_ResetRestoresBaseline ==
    last.op = "resetForm"
        => (formData = Baseline /\ last.notified = Some(Baseline))

C3_Witness ==
    /\ last.op = "resetForm"
    /\ lastHostData # None
    /\ Get(lastHostData) # InitialData
    /\ formData = Get(lastHostData)
    /\ last.notified = lastHostData

\* C4: the snapshot is the snapshot of the last wholesale assignment overlaid
\* with the writes made since, each written key holding its last written value
\* and every other key its prior value.
C4_WritesOverlayInOrder == formData = Overlay(base, writes)

C4_Witness ==
    /\ last.op = "updateField" /\ last.name = "reviewerComments"
    /\ ~IsReadOnly(taskData)
    /\ lastHostData # None
    /\ writes["patientName"] = None
    /\ writes["reviewerComments"] = Some("ok")
    /\ formData["patientName"] = Get(lastHostData)["patientName"]
    /\ formData["patientName"] # Undefined
    /\ formData["reviewerComments"] = "ok"

\* C5: once the callback for an envelope with data has returned, the form
\* snapshot is exactly that data (keys the data lacks are not present) and
\* hasActionCenterData is true.
C5_HostDataReplacesSnapshot ==
    (last.op = "envelope" /\ pc = "idle" /\ Get(taskData).data # None)
        => (formData = Get(Get(taskData).data) /\ hasActionCenterData)

C5_Witness ==
    /\ last.op = "envelope" /\ pc = "idle"
    /\ Get(taskData).data # None
    /\ InitialData["patientName"] # Undefined
    /\ Get(Get(taskData).data)["patientName"] = Undefined
    /\ formData["patientName"] = Undefined
    /\ hasActionCenterData

\* C6: every step of the callback for an envelope without data leaves the
\* form snapshot and the reset baseline unchanged, and isReadOnly takes the
\* envelope's value.
C6_EnvelopeWithoutDataKeepsForm ==
    [][/\ (pc = "idle" /\ pc' # "idle" /\ env'.data = None)
            => /\ formData' = formData
               /\ initialDataRef' = initialDataRef
               /\ env'.isReadOnly # None
                    => IsReadOnly(taskData') = Get(env'.isReadOnly)
       /\ (pc # "idle" /\ pc' # pc /\ env.data = None)
            => /\ formData' = formData
               /\ initialDataRef' = initialDataRef
               /\ IsReadOnly(taskData') = IsReadOnly(taskData)]_vars

C6_Witness ==
    /\ last.op = "envelope" /\ pc = "idle"
    /\ Get(taskData).data = None
    /\ Get(taskData).isReadOnly = Some(TRUE)
    /\ IsReadOnly(taskData)
    /\ writes # NoWrites
    /\ formData # InitialData
    /\ initialDataRef # InitialData
    /\ formData # initialDataRef

\* C7: an envelope is applied per concern: one without theme and newTheme
\* leaves the theme unchanged, one without language and newLanguage leaves
\* the language unchanged, one without data leaves the form data unchanged.
C7_EnvelopesApplyPerConcern ==
    [][(pc = "idle" /\ pc' # "idle")
         => /\ (env'.theme = None /\ env'.newTheme = None) => theme' = theme
            /\ (env'.language = None /\ env'.newLanguage = None)
                 => language' = language
            /\ env'.data = None => formData' = formData]_vars

\* C8: the host subscription is registered at most once and the ready signal
\* is issued at most once, however often the mount effect runs.
C8_SubscribeAndReadyAtMostOnce == subscribeCalls <= 1 /\ readyCalls <= 1

C8_Witness ==
    /\ last.op = "mountSkipped"
    /\ subscribeCalls = 1
    /\ readyCalls = 1

\* C9: a completeTask call whose host call throws runs the local fallback
\* exactly once, with the outcome of the call and the form snapshot the hook
\* exposes (the store's snapshot when no envelope has arrived), and no
\* exception leaves the call.
C9_FallbackRunsOnce ==
    [][(IsCall({"completeTask"}) /\ last'.completeThrew)
         => /\ Len(last'.fallbacks) = 1
            /\ last'.fallbacks[1].outcome = last'.outcome
            /\ last'.fallbacks[1].formData = view.formData
            /\ taskData = None => last'.fallbacks[1].formData = formData
            /\ ~last'.escaped]_vars

C9_Witness ==
    /\ last.op = "completeTask" /\ last.completeThrew
    /\ taskData = None
    /\ last.outcome = "Correct"
    /\ Len(last.fallbacks) = 1
    /\ last.fallbacks[1].outcome = "Correct"
    /\ last.fallbacks[1].formData = formData
    /\ formData # InitialData

\* C10: after an updateField, updateFormData or resetForm call whose
\* dataChanged call threw, the snapshot is the one the call asked for (the
\* payload of the failed notification, the same as when the call succeeds)
\* and no exception has left the handler.
C10_FailedNotificationKeepsState ==
    (last.op \in EditOps /\ last.notifyThrew)
        => /\ ~last.escaped
           /\ last.notified = Some(formData)
           /\ formData = Overlay(base, writes)

C10_Witness ==
    /\ last.op = "updateField" /\ last.notifyThrew
    /\ ~last.escaped
    /\ formData # base
    /\ last.notified = Some(formData)

\* C11: completed is terminal: once a completeTask call has succeeded, a later
\* updateField or updateFormData call does not change the form snapshot.
\* Stated for the update call that follows the successful completion.
C11_CompletedIsTerminal ==
    [][(/\ last.op = "completeTask" /\ ~last.completeThrew
        /\ IsCall(UpdateOps))
         => formData' = formData]_vars

\* C12: host data replaces the snapshot only on the initial payload: once host
\* data has been applied and the callback has returned, the data of a later
\* envelope does not replace the snapshot, so the edits made since are kept.
C12_HostDataAppliedOnce ==
    [][(/\ pc = "formData" /\ pc' # pc
        /\ hasActionCenterData
        /\ initialDataRef # InitialData
        /\ writes # NoWrites)
         => formData' = Overlay(base, writes)]_vars

\* C13: after updateField or updateFormData the payload of the dataChanged
\* call is the whole snapshot the store now holds (every key, the unwritten
\* ones with their prior values), and updateFormData has applied all its keys
\* in the one transition of the call.
C13_NotifiesFullSnapshot ==
    last.op \in UpdateOps
        => /\ last.notified = Some(formData)
           /\ last.notified = Some(Overlay(base, writes))
           /\ last.op = "updateFormData"
                => \A k \in Keys :
                     last.partial[k] # None => formData[k] = Get(last.partial[k])

C13_Witness ==
    /\ last.op = "updateFormData"
    /\ last.partial["patientName"] = None
    /\ last.partial["reviewerComments"] = Some("ok")
    /\ formData["patientName"] = "ok"
    /\ last.notified = Some(formData)

\* The envelope carries all four credentials.
AllFour(e) == \A f \in CredentialFields : e[f] # None

\* This step is the host handing an envelope to the callback.
IsEnvelope == pc = "idle" /\ pc' # "idle"

\* C14: an envelope constructs a new SDK client (marked initialized, with the
\* envelope's token) if and only if it carries all four of baseUrl, orgName,
\* tenantName and token; one with a proper subset of them constructs none and
\* leaves isSDKInitialized() as it was, and the client's secret too unless it
\* carries a refreshed token.
C14_ClientInitializedIffAllFour ==
    [][IsEnvelope
         => /\ (sdkClients' # sdkClients) <=> AllFour(env')
            /\ AllFour(env')
                 => /\ sdkClients' = sdkClients + 1
                    /\ sdkInitialized'
                    /\ env'.newToken = None => sdkSecret' = Get(env'.token)
            /\ ~AllFour(env')
                 => /\ sdkInitialized' = sdkInitialized
                    /\ env'.newToken = None => sdkSecret' = sdkSecret]_vars

C14_Witness ==
    /\ last.op = "envelope" /\ ~last.first /\ pc = "idle"
    /\ Get(taskData).baseUrl # None
    /\ Get(taskData).orgName # None
    /\ Get(taskData).tenantName # None
    /\ Get(taskData).token = None
    /\ Get(taskData).newToken = None
    /\ sdkClients = 3
    /\ sdkInitialized
    /\ sdkSecret = "t1"

\* C15: an envelope with a refreshed token and without the full credentials
\* sets the secret of the current client to the new token: no client is
\* constructed and isSDKInitialized() keeps its value.
C15_TokenRefreshInPlace ==
    [][(IsEnvelope /\ env'.newToken # None /\ ~AllFour(env'))
         => /\ sdkSecret' = Get(env'.newToken)
            /\ sdkClients' = sdkClients
            /\ sdkInitialized' = sdkInitialized]_vars

C15_Witness ==
    /\ last.op = "envelope" /\ last.first /\ pc = "idle"
    /\ Get(taskData).newToken = Some("t2")
    /\ ~AllFour(Get(taskData))
    /\ Get(taskData).token # None
    /\ sdkSecret = "t2"
    /\ sdkClients = 1
    /\ ~sdkInitialized

\* C18: hasActionCenterData guards authenticated API calls: whenever it is
\* true the SDK client has been initialized with host credentials.
C18_FlagImpliesSdkInitialized == hasActionCenterData => sdkInitialized

\* C16: a session starts with snapshot = initialData, hasActionCenterData =
\* false and isReadOnly = false; as long as no host envelope has arrived the
\* flag stays false and the page is not read-only, while an updateField call
\* is reflected in the snapshot the store holds and the page sees.
C16_UsableWithoutHost ==
    taskData = None
        => /\ ~hasActionCenterData
           /\ ~view.hasActionCenterData
           /\ ~view.isReadOnly
           /\ last.op = "none"
                => (formData = InitialData /\ view.formData = InitialData)
           /\ last.op = "updateField"
                => (formData[last.name] = last.value /\ view.formData = formData)

C16_Witness ==
    /\ taskData = None
    /\ subscribed /\ readySignalled
    /\ last.op = "updateField" /\ last.name = "reviewerComments"
    /\ last.value = "ok"
    /\ formData["reviewerComments"] = "ok"
    /\ formData # InitialData
    /\ ~hasActionCenterData

\* The mount effect ran and one of its two host calls threw.
MountFailed == isInitializedRef /\ ~(subscribed /\ readySignalled)

\* C17: when registering the subscription or sending the ready signal threw
\* at mount, no exception has left the effect, the snapshot is the default
\* data (with the page's own edits) and hasActionCenterData is false,
\* updateField and completeTask still do their work, and the registration is
\* never attempted again.
C17_MountFailureIsContained ==
    MountFailed
        => /\ ~last.escaped
           /\ taskData = None /\ ~hasActionCenterData
           /\ initialDataRef = InitialData
           /\ formData = Overlay(InitialData, writes)
           /\ last.op = "updateField" => formData[last.name] = last.value
           /\ last.op = "completeTask" => last.completed # None
           /\ subscribeCalls = 1 /\ readyCalls <= 1

C17_Witness ==
    /\ MountFailed /\ ~subscribed
    /\ subscribeCalls = 1 /\ readyCalls = 0
    /\ last.op = "updateField" /\ last.name = "patientName"
    /\ formData["patientName"] = ""
    /\ formData # InitialData
    /\ ~hasActionCenterData

\* C19: the numeric control emits "no value" (undefined), not 0, for empty
\* input; in an integer-typed field every number typed, one with a fraction
\* included ("3.7" gives 3), is emitted as a whole number; in a non-integer
\* numeric field the fraction is kept (3.7).
C19_NumericEmission ==
    control.changes > 0
        => /\ Len(control.emitted) = 1
           /\ control.text = <<>> => control.emitted[1] = UndefinedValue
           /\ (ValidNumber(control.text) /\ IsIntegerType(control.type))
                => /\ control.emitted[1].kind = "number"
                   /\ control.emitted[1].scaled % Scale = 0
           /\ (control.text = <<"3", ".", "7">> /\ IsIntegerType(control.type))
                => control.emitted[1] = Num(3 * Scale)
           /\ (control.text = <<"3", ".", "7">> /\ ~IsIntegerType(control.type))
                => control.emitted[1] = Num((37 * Scale) \div 10)
           /\ (control.text = <<"-", ".", "7">> /\ ~IsIntegerType(control.type))
                => control.emitted[1] = Num(0 - (7 * Scale) \div 10)

\* C20: a change event for non-empty text that is not a number emits no
\* update: onChange is not called, the field's stored value is left as it
\* was, and no NaN is stored.
C20_InvalidTextEmitsNothing ==
    [][(/\ control' # control
        /\ control'.text # <<>>
        /\ ~ValidNumber(control'.text))
         => /\ control'.emitted = <<>>
            /\ control'.stored = control.stored
            /\ control'.stored # NaN]_vars

\* C23: once isReadOnly is true it stays true: an envelope that omits
\* isReadOnly does not turn it back to false.
C23_ReadOnlyIsSticky ==
    [][(IsEnvelope /\ IsReadOnly(taskData) /\ env'.isReadOnly = None)
         => IsReadOnly(taskData')]_vars

\* C24: hasActionCenterData is true when the callback of an envelope (the
\* first one included) returns, and no step (resetForm, completeTask, a later
\* envelope, any other) sets it back to false.
C24_FlagSetOnceAndKept ==
    [][/\ hasActionCenterData => hasActionCenterData'
       /\ (pc # "idle" /\ pc' = "idle") => hasActionCenterData']_vars

C24_Witness ==
    /\ last.op = "resetForm"
    /\ taskData # None
    /\ Get(taskData).data = None
    /\ hasActionCenterData
    /\ view.hasActionCenterData

\* C25: the ready signal is sent only after the subscription was registered:
\* when the registration threw, no ready call was made, the host was never
\* signalled and no envelope has reached the session.
C25_ReadyOnlyAfterSubscribe ==
    /\ (readyCalls > 0 \/ readySignalled) => (subscribed /\ subscribeCalls = 1)
    /\ (isInitializedRef /\ ~subscribed)
         => (readyCalls = 0 /\ ~readySignalled /\ taskData = None)

C25_Witness ==
    /\ isInitializedRef /\ ~subscribed
    /\ subscribeCalls = 1 /\ readyCalls = 0
    /\ last.op = "mountSkipped"
    /\ taskData = None

\* C27: the reset baseline changes only when the callback applies an envelope
\* that carries data; resetForm sets the snapshot to the baseline, dropping
\* every write made since, and a reset that follows a reset leaves the
\* snapshot as it is.
C27_BaselineOnlyFromHostData ==
    [][/\ initialDataRef' # initialDataRef => (pc = "formData" /\ env.data # None)
       /\ IsCall({"resetForm"})
            => /\ formData' = initialDataRef
               /\ writes' = NoWrites
               /\ last.op = "resetForm" => formData' = formData]_vars

C27_Witness ==
    /\ last.op = "resetForm"
    /\ hasActionCenterData
    /\ lastHostData = Some(initialDataRef)
    /\ initialDataRef["reviewerComments"] = "ok"
    /\ formData = initialDataRef
    /\ writes = NoWrites

\* C28: while isReadOnly is true, resetForm does not change the form snapshot
\* and sends no dataChanged notification.
C28_ResetRespectsReadOnly ==
    [][(IsCall({"resetForm"}) /\ view.isReadOnly /\ IsReadOnly(taskData))
         => (formData' = formData /\ last'.notified = None)]_vars

\* C26: the completeTask call hands the host the snapshot the store holds at
\* the time of the call, with every update and every host data envelope that
\* came before it.
C26_CompleteSendsCurrentSnapshot ==
    [][IsCall({"completeTask"})
         => /\ last'.completed # None
            /\ Get(last'.completed).outcome = last'.outcome
            /\ Get(last'.completed).formData = formData]_vars

\* C22: while the page shows isReadOnly = true it offers no enabled
\* interaction: no updateField, updateFormData, resetForm or completeTask call
\* comes from the user.
C22_ReadOnlyPageHasNoInteraction ==
    [][IsCall(EditOps \cup {"completeTask"}) => ~view.isReadOnly]_vars

C22_Witness ==
    /\ view.isReadOnly
    /\ pc = "idle"
    /\ last.op = "envelope"
    /\ writes["reviewerComments"] = Some("ok")
    /\ ~ENABLED (\E text \in CommentTexts, ok \in BOOLEAN : TypeComments(text, ok))
    /\ ~ENABLED (\E o \in Outcomes, ok \in BOOLEAN : ClickOutcome(o, ok))

\* C29: the user completes the task only from a page whose reviewerComments
\* are present and not blank after trimming, so the payload carries such
\* comments, and only with the outcome Correct or Incorrect.
C29_CompletionNeedsComments ==
    [][IsCall({"completeTask"})
         => /\ view.formData["reviewerComments"] \in {"ok", " ok "}
            /\ Get(last'.completed).formData["reviewerComments"] \in {"ok", " ok "}
            /\ last'.outcome \in {"Correct", "Incorrect"}
            /\ Get(last'.completed).outcome = last'.outcome]_vars

C29_Witness ==
    /\ last.op = "completeTask"
    /\ last.outcome = "Incorrect"
    /\ Get(last.completed).formData["reviewerComments"] = " ok "

\* C21: for every declared type and multiline hint the field shown has one
\* control kind: boolean gives the checkbox whatever the hint, text with the
\* hint the textarea, every numeric type the numeric control whatever the
\* hint, date-only the date control, everything else the single-line text
\* control.
C21_ControlSelection ==
    /\ control.kind \in {"checkbox", "textarea", "number", "date", "text"}
    /\ control.kind = "checkbox" <=> control.type = "Boolean"
    /\ control.kind = "textarea" <=> (control.type = "String" /\ control.multiline)
    /\ control.kind = "number" <=> control.type \in NumberTypes
    /\ control.kind = "date" <=> control.type = "DateOnly"
    /\ control.kind = "text"
         <=> (control.type = "Other" \/ (control.type = "String" /\ ~control.multiline))

C21_Witness ==
    /\ control.type = "Boolean"
    /\ control.multiline
    /\ control.kind = "checkbox"

\* The call started last, and the last started call that succeeded (0: none).
LatestStarted(f) == Cardinality(Started(f))

LatestSucceeded(f) ==
    IF \E i \in FetchIds : f.calls[i] = "ok"
    THEN CHOOSE i \in FetchIds :
           f.calls[i] = "ok" /\ \A j \in FetchIds : f.calls[j] = "ok" => j <= i
    ELSE 0

\* C30: with overlapping fetches, loading is true while a fetch is in flight;
\* once all have settled loading is false, error is set only if the fetch
\* started last failed, and entities hold the response of the last started
\* fetch that succeeded.
C30_OverlappingFetches ==
    /\ InFlight(fetch) # {} => fetch.loading
    /\ (InFlight(fetch) = {} /\ Started(fetch) # {})
         => /\ ~fetch.loading
            /\ fetch.error # None => fetch.calls[LatestStarted(fetch)] = "failed"
            /\ fetch.entities = LatestSucceeded(fetch)

====
